---- MODULE Spec2Model ----
(***************************************************************************)
(* Model of pysplinefit/data.py: the Boundary container (validated         *)
(* setters, lazy initial curve, parameterize, fit) together with the       *)
(* collaborators it calls (np.linspace, knots.generate_uniform,            *)
(* parameterize.parameterize_curve, fitting.fit_curve_fixed_num_pts).      *)
(***************************************************************************)
EXTENDS Integers, Sequences, FiniteSets, TLC

VARIABLES data, start, end, degree, num_ctrlpts, init_curve,
          parameterized_data, fit_curve, last, knots_call

boundary == <<data, start, end, degree, num_ctrlpts, init_curve,
              parameterized_data, fit_curve>>
vars == <<data, start, end, degree, num_ctrlpts, init_curve,
          parameterized_data, fit_curve, last, knots_call>>

(***************************************************************************)
(* Bounds of the model and constants of the program.                       *)
(***************************************************************************)
MaxDegree == 4
MaxNumCtrlpts == 5
MaxKnotDegree == 8
MaxKnotCtrlpts == 13
\* the literal of `if num <= 3` in the num_ctrlpts setter
NumCtrlptsLimit == 3

(***************************************************************************)
(* Python values.  None, an int object, a numpy array (its shape and its   *)
(* elements in row-major order) and an object np.array() cannot cast.      *)
(***************************************************************************)
None == [none |-> TRUE]
PyInt(n) == [int |-> n]
Array(shape, elems) == [shape |-> shape, elems |-> elems]
Uncastable == [uncastable |-> TRUE]

ndim(a) == Len(a.shape)
len(a) == a.shape[1]
shape_last(a) == a.shape[Len(a.shape)]

(***************************************************************************)
(* Exact rationals for the floats np.linspace and the knot generator       *)
(* produce: a fraction in lowest terms.                                    *)
(***************************************************************************)
RECURSIVE GCD(_, _)
GCD(a, b) == IF b = 0 THEN a ELSE GCD(b, a % b)

Rat(n, d) == LET g == GCD(n, d) IN [num |-> n \div g, den |-> d \div g]

(***************************************************************************)
(* Inputs the callers pass: two anchors in R3 and one in R2, a point of    *)
(* length 4, a 2-dimensional "point" and an object that cannot be cast;    *)
(* data with 3 and with 2 columns, 1-dimensional data, data with 4         *)
(* columns and an object that cannot be cast.  The degree is MaxDegree,    *)
(* the smallest one a num_ctrlpts the setter accepts does not exceed.      *)
(***************************************************************************)
PointA == Array(<<3>>, <<0, 0, 0>>)
PointB == Array(<<3>>, <<4, 2, 1>>)
PointQ == Array(<<2>>, <<0, 2>>)
RejectedPoints ==
    { Array(<<4>>, <<0, 0, 0, 1>>),
      Array(<<1, 3>>, <<0, 0, 0>>),
      Uncastable }
StartInputs == {PointA, PointB, PointQ} \cup RejectedPoints
EndInputs == {PointB, PointQ} \cup RejectedPoints

Data3 == Array(<<2, 3>>, <<1, 0, 0, 3, 2, 1>>)
Data2 == Array(<<2, 2>>, <<1, 0, 3, 2>>)
DataInputs ==
    { Data3, Data2,
      Array(<<3>>, <<1, 0, 0>>),
      Array(<<2, 4>>, <<1, 0, 0, 0, 3, 2, 1, 0>>),
      Uncastable }

DegreeInputs == {MaxDegree}
NumInputs == (NumCtrlptsLimit - 1)..MaxNumCtrlpts

Call(op, arg, outcome, calls) ==
    [op |-> op, arg |-> arg, outcome |-> outcome, calls |-> calls]

(***************************************************************************)
(* Boundary.__init__                                                       *)
(***************************************************************************)
Init ==
    /\ data = None
    /\ start = None
    /\ end = None
    /\ degree = None
    /\ num_ctrlpts = None
    /\ init_curve = None
    /\ parameterized_data = None
    /\ fit_curve = None
    /\ last = Call("__init__", None, "ok", <<>>)
    /\ knots_call = None

(***************************************************************************)
(* The data, start and end setters: cast, check, assign.                   *)
(***************************************************************************)
data_setter_outcome(data_array) ==
    IF data_array = Uncastable THEN "Exception"
    ELSE IF ndim(data_array) # 2 THEN "ValueError"
    ELSE IF ~(shape_last(data_array) = 2 \/ shape_last(data_array) = 3)
         THEN "ValueError"
    ELSE "ok"

\* a data setter that assigns the cast array before it checks it
set_data_assigns_first(data_array) ==
    LET outcome == data_setter_outcome(data_array) IN
    /\ data' = IF data_array # Uncastable THEN data_array ELSE data
    /\ last' = Call("data", data_array, outcome, <<>>)
    /\ UNCHANGED <<start, end, degree, num_ctrlpts, init_curve,
                   parameterized_data, fit_curve, knots_call>>

set_data(data_array) ==
    LET outcome == data_setter_outcome(data_array) IN
    /\ data' = IF outcome = "ok" THEN data_array ELSE data
    /\ last' = Call("data", data_array, outcome, <<>>)
    /\ UNCHANGED <<start, end, degree, num_ctrlpts, init_curve,
                   parameterized_data, fit_curve, knots_call>>

point_setter_outcome(point) ==
    IF point = Uncastable THEN "Exception"
    ELSE IF ndim(point) # 1 THEN "ValueError"
    ELSE IF ~(len(point) = 2 \/ len(point) = 3) THEN "ValueError"
    ELSE "ok"

set_start(point) ==
    LET outcome == point_setter_outcome(point) IN
    /\ start' = IF outcome = "ok" THEN point ELSE start
    /\ last' = Call("start", point, outcome, <<>>)
    /\ UNCHANGED <<data, end, degree, num_ctrlpts, init_curve,
                   parameterized_data, fit_curve, knots_call>>

set_end(point) ==
    LET outcome == point_setter_outcome(point) IN
    /\ end' = IF outcome = "ok" THEN point ELSE end
    /\ last' = Call("end", point, outcome, <<>>)
    /\ UNCHANGED <<data, start, degree, num_ctrlpts, init_curve,
                   parameterized_data, fit_curve, knots_call>>

(***************************************************************************)
(* The num_ctrlpts setter.                                                 *)
(***************************************************************************)
num_ctrlpts_setter_outcome(num) ==
    IF num <= NumCtrlptsLimit THEN "ValueError" ELSE "ok"

set_num_ctrlpts(num) ==
    LET outcome == num_ctrlpts_setter_outcome(num) IN
    /\ num_ctrlpts' = IF outcome = "ok" THEN PyInt(num) ELSE num_ctrlpts
    /\ last' = Call("num_ctrlpts", PyInt(num), outcome, <<>>)
    /\ UNCHANGED <<data, start, end, degree, init_curve,
                   parameterized_data, fit_curve, knots_call>>

(***************************************************************************)
(* The degree setter inherited from spline.Curve.                          *)
(***************************************************************************)
set_degree(deg) ==
    /\ degree' = PyInt(deg)
    /\ last' = Call("degree", PyInt(deg), "ok", <<>>)
    /\ UNCHANGED <<data, start, end, num_ctrlpts, init_curve,
                   parameterized_data, fit_curve, knots_call>>

(***************************************************************************)
(* np.linspace(a, b, num) over integer end values: element k (from 0) is   *)
(* a + k*(b - a)/(num - 1); np.column_stack makes row k of the k-th        *)
(* elements.                                                               *)
(***************************************************************************)
linspace(a, b, num) ==
    [k \in 1..num |-> Rat(a * (num - k) + b * (k - 1), num - 1)]

column_stack(x_vals, y_vals, z_vals) ==
    [k \in 1..Len(x_vals) |-> <<x_vals[k], y_vals[k], z_vals[k]>>]

(***************************************************************************)
(* knots.generate_uniform(degree, num_ctrlpts): degree+1 zeros, the        *)
(* num_ctrlpts-degree-1 interior knots i/(num_ctrlpts-degree), degree+1    *)
(* ones; InvalidDegree when num_ctrlpts <= degree.                         *)
(***************************************************************************)
generate_uniform_raises(deg, num) == num <= deg

\* a generator that spaces the interior knots one interval short
generate_uniform_short_spacing(deg, num) ==
    [i \in 1..(num + deg + 1) |->
        IF i <= deg + 1 THEN Rat(0, 1)
        ELSE IF i > num THEN Rat(1, 1)
        ELSE Rat(i - deg - 1, num - deg + 1)]

generate_uniform(deg, num) ==
    [i \in 1..(num + deg + 1) |->
        IF i <= deg + 1 THEN Rat(0, 1)
        ELSE IF i > num THEN Rat(1, 1)
        ELSE Rat(i - deg - 1, num - deg)]

(***************************************************************************)
(* Boundary.set_init_curve                                                 *)
(***************************************************************************)
set_init_curve_outcome ==
    IF start = None \/ end = None \/ degree = None THEN "TypeError"
    ELSE IF len(start) < 3 \/ len(end) < 3 THEN "IndexError"
    ELSE "ok"

new_init_curve ==
    LET x_vals == linspace(start.elems[1], end.elems[1], degree.int + 1)
        y_vals == linspace(start.elems[2], end.elems[2], degree.int + 1)
        z_vals == linspace(start.elems[3], end.elems[3], degree.int + 1)
        init_ctrlpts == column_stack(x_vals, y_vals, z_vals)
    IN [degree |-> degree.int,
        control_points |-> init_ctrlpts,
        knot_vector |-> generate_uniform(degree.int, Len(init_ctrlpts))]

\* set_init_curve that clears the stored curve before building the new one
set_init_curve_clears_first ==
    /\ init_curve' = IF set_init_curve_outcome = "ok" THEN new_init_curve
                     ELSE None
    /\ last' = Call("set_init_curve", None, set_init_curve_outcome, <<>>)
    /\ UNCHANGED <<data, start, end, degree, num_ctrlpts,
                   parameterized_data, fit_curve, knots_call>>

set_init_curve ==
    /\ init_curve' = IF set_init_curve_outcome = "ok" THEN new_init_curve
                     ELSE init_curve
    /\ last' = Call("set_init_curve", None, set_init_curve_outcome, <<>>)
    /\ UNCHANGED <<data, start, end, degree, num_ctrlpts,
                   parameterized_data, fit_curve, knots_call>>

(***************************************************************************)
(* parameterize.parameterize_curve(curve, data): the rows                  *)
(* [coordinates..., u] are a function of the curve and the data alone.     *)
(* It raises on data that is None, and may raise when the data's columns   *)
(* are not the curve's dimensionality.                                     *)
(***************************************************************************)
curve_dim(curve) ==
    IF "control_points" \in DOMAIN curve THEN Len(curve.control_points[1])
    ELSE Len(curve.first)

parameterize_curve(curve, data_array) ==
    [curve |-> curve, data |-> data_array]

parameterize_curve_outcomes(curve, data_array) ==
    IF data_array = None THEN {"TypeError"}
    ELSE IF shape_last(data_array) # curve_dim(curve) THEN {"ok", "ValueError"}
    ELSE {"ok"}

(***************************************************************************)
(* fitting.fit_curve_fixed_num_pts(curve, data, num_ctrlpts): a new curve  *)
(* of the initial curve's degree with num_ctrlpts control points, the      *)
(* first and last being the initial curve's, the interior ones solved from *)
(* the data.  It raises on missing arguments and may raise on a system it  *)
(* cannot solve.                                                           *)
(***************************************************************************)
fit_curve_fixed_num_pts(curve, data_array, num) ==
    [degree |-> curve.degree,
     num_ctrlpts |-> num.int,
     first |-> curve.control_points[1],
     last |-> curve.control_points[Len(curve.control_points)],
     data |-> data_array]

fit_curve_fixed_num_pts_outcomes(curve, data_array, num) ==
    IF data_array = None \/ num = None THEN {"TypeError"}
    ELSE {"ok", "SingularSystem"}

(***************************************************************************)
(* Boundary.parameterize: which branch creates the initial curve, and      *)
(* which curve the data is parameterized against.                          *)
(***************************************************************************)
parameterize_sets_init_curve(ic, fc) == ic = None /\ fc = None

\* a parameterize() that looks at the initial curve first
parameterize_target_init_first(ic, fc) == IF ic # None THEN ic ELSE fc

parameterize_target(ic, fc) == IF fc = None THEN ic ELSE fc

\* The results of parameterize() on a Boundary whose curves are ic and fc:
\* the outcome, the initial curve and parameterized data it leaves, and
\* the calls it made.
parameterize_results(ic, fc) ==
    IF parameterize_sets_init_curve(ic, fc) /\ set_init_curve_outcome # "ok"
    THEN {[outcome |-> set_init_curve_outcome,
           init_curve |-> ic,
           parameterized_data |-> parameterized_data,
           calls |-> <<"set_init_curve">>]}
    ELSE LET ic2 == IF parameterize_sets_init_curve(ic, fc)
                    THEN new_init_curve ELSE ic
             calls == IF parameterize_sets_init_curve(ic, fc)
                      THEN <<"set_init_curve", "parameterize_curve">>
                      ELSE <<"parameterize_curve">>
             target == parameterize_target(ic2, fc)
         IN IF target = None
            THEN {[outcome |-> "AttributeError",
                   init_curve |-> ic2,
                   parameterized_data |-> parameterized_data,
                   calls |-> calls]}
            ELSE {[outcome |-> o,
                   init_curve |-> ic2,
                   parameterized_data |->
                       IF o = "ok" THEN parameterize_curve(target, data)
                       ELSE parameterized_data,
                   calls |-> calls]
                  : o \in parameterize_curve_outcomes(target, data)}

parameterize ==
    \E r \in parameterize_results(init_curve, fit_curve) :
        /\ init_curve' = r.init_curve
        /\ parameterized_data' = r.parameterized_data
        /\ last' = Call("parameterize", None, r.outcome, r.calls)
        /\ UNCHANGED <<data, start, end, degree, num_ctrlpts, fit_curve,
                       knots_call>>

(***************************************************************************)
(* Boundary.fit                                                            *)
(***************************************************************************)
\* a fit() that rebuilds the initial curve on every call
fit_always_sets_init_curve(ic) == ic = ic

fit_sets_init_curve(ic) == ic = None

fit ==
    IF fit_sets_init_curve(init_curve) /\ set_init_curve_outcome # "ok"
    THEN /\ last' = Call("fit", None, set_init_curve_outcome,
                         <<"set_init_curve">>)
         /\ UNCHANGED boundary
         /\ UNCHANGED knots_call
    ELSE LET ic == IF fit_sets_init_curve(init_curve)
                   THEN new_init_curve ELSE init_curve
             calls == IF fit_sets_init_curve(init_curve)
                      THEN <<"set_init_curve", "fit_curve_fixed_num_pts">>
                      ELSE <<"fit_curve_fixed_num_pts">>
         IN IF ic = None
            THEN /\ last' = Call("fit", None, "AttributeError", calls)
                 /\ UNCHANGED boundary
                 /\ UNCHANGED knots_call
            ELSE
            \E o \in fit_curve_fixed_num_pts_outcomes(ic, data, num_ctrlpts) :
              IF o # "ok"
              THEN /\ init_curve' = ic
                   /\ last' = Call("fit", None, o, calls)
                   /\ UNCHANGED <<data, start, end, degree, num_ctrlpts,
                                  parameterized_data, fit_curve, knots_call>>
              ELSE LET final_fit ==
                           fit_curve_fixed_num_pts(ic, data, num_ctrlpts)
                   IN \E r \in parameterize_results(ic, final_fit) :
                        /\ init_curve' = r.init_curve
                        /\ fit_curve' = final_fit
                        /\ parameterized_data' = r.parameterized_data
                        /\ last' = Call("fit", None, r.outcome,
                                        calls \o <<"parameterize">> \o r.calls)
                        /\ UNCHANGED <<data, start, end, degree, num_ctrlpts,
                                       knots_call>>

Next ==
    \/ \E data_array \in DataInputs : set_data(data_array)
    \/ \E point \in StartInputs : set_start(point)
    \/ \E point \in EndInputs : set_end(point)
    \/ \E num \in NumInputs : set_num_ctrlpts(num)
    \/ \E deg \in DegreeInputs : set_degree(deg)
    \/ set_init_curve
    \/ parameterize
    \/ fit

Spec == Init /\ [][Next]_vars

(***************************************************************************)
(* A caller of the knot generator alone.                                   *)
(***************************************************************************)
generate_uniform_call(deg, num) ==
    /\ knots_call' =
           [degree |-> deg,
            num_control_points |-> num,
            outcome |-> IF generate_uniform_raises(deg, num)
                        THEN "InvalidDegree" ELSE "ok",
            knot_vector |-> IF generate_uniform_raises(deg, num)
                            THEN <<>> ELSE generate_uniform(deg, num)]
    /\ UNCHANGED <<data, start, end, degree, num_ctrlpts, init_curve,
                   parameterized_data, fit_curve, last>>

NextKnots ==
    \E deg \in 1..MaxKnotDegree, num \in 1..MaxKnotCtrlpts :
        generate_uniform_call(deg, num)

SpecKnots == Init /\ [][NextKnots]_vars

(***************************************************************************)
(* Properties.                                                             *)
(***************************************************************************)
Called(call, name) == \E i \in 1..Len(call.calls) : call.calls[i] = name

PointEq(ctrlpt, anchor) ==
    /\ Len(ctrlpt) = len(anchor)
    /\ \A i \in 1..Len(ctrlpt) : ctrlpt[i] = Rat(anchor.elems[i], 1)

FirstCtrlpt(curve) == curve.control_points[1]
LastCtrlpt(curve) == curve.control_points[Len(curve.control_points)]

\* C1: a successful parameterize() made while a fitted curve exists stores
\* the parameterization of the data against fit_curve, never against the
\* initial curve; after a successful fit() fit_curve is the curve this fit
\* computed and parameterized_data is the data parameterized against it;
\* only without a fitted curve is the initial curve the target.
C1_ParameterizePrefersFitCurve ==
    /\ (last.op = "parameterize" /\ last.outcome = "ok") =>
          IF fit_curve # None
          THEN /\ parameterized_data.curve = fit_curve
               /\ parameterized_data.curve # init_curve
               /\ parameterized_data.data = data
          ELSE /\ parameterized_data.curve = init_curve
               /\ parameterized_data.data = data
    /\ (last.op = "fit" /\ last.outcome = "ok") =>
          /\ fit_curve # None
          /\ fit_curve.data = data
          /\ fit_curve.num_ctrlpts = num_ctrlpts.int
          /\ fit_curve.first = FirstCtrlpt(init_curve)
          /\ fit_curve.last = LastCtrlpt(init_curve)
          /\ parameterized_data.curve = fit_curve
          /\ parameterized_data.data = data

C1_Witness ==
    /\ last.op = "parameterize"
    /\ last.outcome = "ok"
    /\ fit_curve # None
    /\ parameterized_data.curve = fit_curve
    /\ fit_curve.data # data

\* C2: fit() calls set_init_curve() exactly when init_curve is None,
\* parameterize() exactly when init_curve and fit_curve are both None, and
\* neither changes an initial curve that already exists.
C2_LazyInitCurve ==
    [][ /\ (last'.op = "fit") =>
              /\ Called(last', "set_init_curve") <=> (init_curve = None)
              /\ (init_curve # None) => (init_curve' = init_curve)
        /\ (last'.op = "parameterize") =>
              /\ Called(last', "set_init_curve")
                     <=> (init_curve = None /\ fit_curve = None)
              /\ (init_curve # None) => (init_curve' = init_curve)
      ]_vars

C2_Witness ==
    /\ last.op = "fit"
    /\ last.outcome = "ok"
    /\ ~Called(last, "set_init_curve")
    /\ init_curve # None
    /\ ~PointEq(FirstCtrlpt(init_curve), start)

\* C3: the curve fit() hands to the Fitter starts at the current start
\* anchor and ends at the current end anchor, and so does the fitted curve
\* fit() stores (stated for the anchors in R3 that set_init_curve can
\* build a curve from).
C3_FitEndpointInvariant ==
    (/\ last.op = "fit"
     /\ Called(last, "fit_curve_fixed_num_pts")
     /\ len(start) = 3 /\ len(end) = 3) =>
        /\ PointEq(FirstCtrlpt(init_curve), start)
        /\ PointEq(LastCtrlpt(init_curve), end)
        /\ (last.outcome = "ok") =>
              /\ PointEq(fit_curve.first, start)
              /\ PointEq(fit_curve.last, end)

\* C4: for anchors of one dimensionality, 2 or 3, that the setters
\* accepted, set_init_curve() completes and the initial curve's control
\* points have the anchors' dimensionality.
C4_BothDimensionalitiesWork ==
    (/\ last.op = "set_init_curve"
     /\ start # None /\ end # None /\ degree # None
     /\ len(start) = len(end)) =>
        /\ last.outcome = "ok"
        /\ \A k \in 1..Len(init_curve.control_points) :
               Len(init_curve.control_points[k]) = len(start)

\* C5: the stored start anchor, end anchor and data rows always have one
\* dimensionality, and the Fitter is never called with anchors whose
\* dimensionality differs from the data's.
C5_SameDimensionality ==
    /\ (start # None /\ end # None) => len(start) = len(end)
    /\ (start # None /\ data # None) => len(start) = shape_last(data)
    /\ (end # None /\ data # None) => len(end) = shape_last(data)
    /\ (Called(last, "fit_curve_fixed_num_pts") /\ data # None) =>
           /\ len(start) = shape_last(data)
           /\ len(end) = shape_last(data)

\* C6: for every degree and every num_ctrlpts the setter stored, fit()
\* reaches fitting.fit_curve_fixed_num_pts only with a num_ctrlpts greater
\* than the degree.
C6_CtrlptsExceedDegreeBeforeFit ==
    (Called(last, "fit_curve_fixed_num_pts") /\ num_ctrlpts # None) =>
        /\ degree # None
        /\ num_ctrlpts.int > degree.int

\* C7: the num_ctrlpts setter accepts and stores every integer >= 3 and
\* raises ValueError for every integer < 3.
C7_NumCtrlptsThreeOrMore ==
    (last.op = "num_ctrlpts") =>
        IF last.arg.int >= 3
        THEN last.outcome = "ok" /\ num_ctrlpts = last.arg
        ELSE last.outcome = "ValueError"

(***************************************************************************)
(* C8: the uniform clamped knot vector.                                    *)
(***************************************************************************)
RatLess(a, b) == a.num * b.den < b.num * a.den
RatDiff(a, b) == Rat(a.num * b.den - b.num * a.den, a.den * b.den)

\* degree+1 zeros, num-degree-1 interior knots uniformly spaced in (0,1),
\* degree+1 ones, num+degree+1 knots in all
UniformClampedRule(kv, deg, num) ==
    /\ Len(kv) = num + deg + 1
    /\ \A i \in 1..(deg + 1) : kv[i] = Rat(0, 1)
    /\ \A i \in (num + 1)..(num + deg + 1) : kv[i] = Rat(1, 1)
    /\ \A i \in (deg + 2)..num :
           RatLess(Rat(0, 1), kv[i]) /\ RatLess(kv[i], Rat(1, 1))
    /\ \A i \in (deg + 1)..(num - 1) :
           RatDiff(kv[i + 1], kv[i]) = RatDiff(kv[i + 2], kv[i + 1])

\* C8 as stated: generate_uniform(2, 6) is [0,0,0, 1/3, 2/3, 1,1,1] and
\* that vector follows the general rule for degree 2 and 6 control points.
C8_KnotScenarioAsStated ==
    (/\ knots_call # None
     /\ knots_call.degree = 2
     /\ knots_call.num_control_points = 6) =>
        /\ knots_call.outcome = "ok"
        /\ knots_call.knot_vector =
               <<Rat(0, 1), Rat(0, 1), Rat(0, 1), Rat(1, 3), Rat(2, 3),
                 Rat(1, 1), Rat(1, 1), Rat(1, 1)>>
        /\ UniformClampedRule(knots_call.knot_vector, 2, 6)

\* C8 amended: every vector generate_uniform returns follows the general
\* rule; for degree 2 and 6 control points it is
\* [0,0,0, 1/4, 1/2, 3/4, 1,1,1], and [0,0,0, 1/3, 2/3, 1,1,1] is the
\* vector for degree 2 and 5 control points.
C8_KnotScenarioAmended ==
    (knots_call # None) =>
        /\ (knots_call.outcome = "ok") <=>
               (knots_call.num_control_points > knots_call.degree)
        /\ (knots_call.outcome = "ok") =>
               UniformClampedRule(knots_call.knot_vector, knots_call.degree,
                                  knots_call.num_control_points)
        /\ (knots_call.degree = 2 /\ knots_call.num_control_points = 6) =>
               knots_call.knot_vector =
                   <<Rat(0, 1), Rat(0, 1), Rat(0, 1), Rat(1, 4), Rat(1, 2),
                     Rat(3, 4), Rat(1, 1), Rat(1, 1), Rat(1, 1)>>
        /\ (knots_call.degree = 2 /\ knots_call.num_control_points = 5) =>
               knots_call.knot_vector =
                   <<Rat(0, 1), Rat(0, 1), Rat(0, 1), Rat(1, 3), Rat(2, 3),
                     Rat(1, 1), Rat(1, 1), Rat(1, 1)>>

C8_Witness ==
    /\ knots_call # None
    /\ knots_call.degree = 2
    /\ knots_call.num_control_points = 6
    /\ knots_call.outcome = "ok"
    /\ Len(knots_call.knot_vector) = 9

(***************************************************************************)
(* C9, C10: the setters and the lifecycle.                                 *)
(***************************************************************************)
IsArray(x) == x # Uncastable /\ x # None

DataShapeAccepted(x) ==
    IsArray(x) /\ Len(x.shape) = 2 /\ x.shape[2] \in {2, 3}

PointShapeAccepted(x) ==
    IsArray(x) /\ Len(x.shape) = 1 /\ x.shape[1] \in {2, 3}

\* C9: the data setter raises ValueError unless the array is 2-dimensional
\* with 2 or 3 columns, the start and end setters unless the point is
\* 1-dimensional of length 2 or 3; a setter that raises leaves data, start,
\* end, init_curve, fit_curve and parameterized_data as they were, and one
\* that succeeds changes only the field it assigns.
C9_AtomicValidation ==
    [][ /\ (last'.op = "data") =>
              IF DataShapeAccepted(last'.arg)
              THEN /\ last'.outcome = "ok"
                   /\ data' = last'.arg
                   /\ UNCHANGED <<start, end, degree, num_ctrlpts, init_curve,
                                  fit_curve, parameterized_data>>
              ELSE /\ last'.outcome # "ok"
                   /\ IsArray(last'.arg) => last'.outcome = "ValueError"
                   /\ UNCHANGED boundary
        /\ (last'.op = "start") =>
              IF PointShapeAccepted(last'.arg)
              THEN /\ last'.outcome = "ok"
                   /\ start' = last'.arg
                   /\ UNCHANGED <<data, end, degree, num_ctrlpts, init_curve,
                                  fit_curve, parameterized_data>>
              ELSE /\ last'.outcome # "ok"
                   /\ IsArray(last'.arg) => last'.outcome = "ValueError"
                   /\ UNCHANGED boundary
        /\ (last'.op = "end") =>
              IF PointShapeAccepted(last'.arg)
              THEN /\ last'.outcome = "ok"
                   /\ end' = last'.arg
                   /\ UNCHANGED <<data, start, degree, num_ctrlpts, init_curve,
                                  fit_curve, parameterized_data>>
              ELSE /\ last'.outcome # "ok"
                   /\ IsArray(last'.arg) => last'.outcome = "ValueError"
                   /\ UNCHANGED boundary
      ]_vars

C9_Witness ==
    /\ last.op = "data"
    /\ last.outcome = "ValueError"
    /\ data # None
    /\ start # None
    /\ end # None
    /\ fit_curve # None
    /\ parameterized_data # None

LifecycleOrder ==
    /\ (fit_curve # None) => (init_curve # None)
    /\ (parameterized_data # None) => (init_curve # None)

\* C10: fit_curve is set only if init_curve is set, parameterized_data is
\* set only if init_curve is set, and init_curve and fit_curve, once set,
\* are never unset again.
C10_Lifecycle ==
    /\ []LifecycleOrder
    /\ [][ /\ (init_curve # None) => (init_curve' # None)
           /\ (fit_curve # None) => (fit_curve' # None) ]_vars

C10_Witness ==
    /\ fit_curve # None
    /\ parameterized_data # None
    /\ init_curve # None
    /\ last.op = "set_init_curve"
    /\ last.outcome = "IndexError"

====
